---- MODULE Spec2Model ----
(***************************************************************************)
(* A model of the CO2 calculator: RoutesDB (the seeded route catalog,      *)
(* findDistance and getAllCities), CONFIG (emission factors, credit prices,*)
(* the distance autofill), Calculator, and handleFormSubmit with the UI    *)
(* helpers it calls.                                                       *)
(*                                                                         *)
(* Representation.  A JavaScript string is a sequence of one-character     *)
(* strings.  A JavaScript number is an integer count of a fixed decimal    *)
(* unit: distances handed to Calculator in 1/DistanceScale km, emission    *)
(* factors in 1/FactorScale kg/km, and every value produced by             *)
(* Math.round(x * 100) / 100 in hundredths.  Arithmetic is exact decimal   *)
(* arithmetic: the representation error of binary floating point, which    *)
(* can move a product that is an exact decimal half (5 km by bus, 0.445 kg)*)
(* to the other side of the half, is not modelled.  The properties that    *)
(* speak of the nearest value accept either neighbour of an exact half;    *)
(* those that fix the direction of an exact half speak of the value handed *)
(* to Math.round, and the inputs of calculateSavings are binary fractions. *)
(* A JavaScript value held in a variable is a tagged record.               *)
(***************************************************************************)
EXTENDS Integers, Sequences, FiniteSets, TLC

VARIABLES routes, factors, credit, call, ret, console,
          submitButton, hidden, timer, alerted, contents,
          originInput, destinationInput, distanceInput, helperText, manualDistance

vars == <<routes, factors, credit, call, ret, console,
          submitButton, hidden, timer, alerted, contents,
          originInput, destinationInput, distanceInput, helperText, manualDistance>>

\* The static tables of RoutesDB and CONFIG.
config == <<routes, factors, credit>>

\* The state of the page that handleFormSubmit changes: the submit button,
\* the ids of the sections that carry the class 'hidden', the pending
\* setTimeout callback, the alerts of the last handler and the rendered
\* contents.
page == <<submitButton, hidden, timer, alerted, contents>>

\* The form controls that the distance autofill reads and writes.
fields == <<originInput, destinationInput, distanceInput, helperText, manualDistance>>

(***************************************************************************)
(* String built-ins: String.prototype.toLowerCase, trim, split(',')[0].    *)
(***************************************************************************)
UpperLetters == <<"A", "B", "C", "D", "E", "F", "G", "H", "I", "J", "K", "L", "M", "N", "O", "P", "Q", "R", "S", "T", "U", "V", "W", "X", "Y", "Z", "Á", "Â", "Ã", "Ç", "Í", "Ó">>

LowerLetters == <<"a", "b", "c", "d", "e", "f", "g", "h", "i", "j", "k", "l", "m", "n", "o", "p", "q", "r", "s", "t", "u", "v", "w", "x", "y", "z", "á", "â", "ã", "ç", "í", "ó">>

Whitespace == {" ", "\t"}

\* The case mappings as tables, one entry per letter that has another case.
LowerCaseOf ==
    [c \in {UpperLetters[i] : i \in 1..Len(UpperLetters)} |->
        LowerLetters[CHOOSE i \in 1..Len(UpperLetters) : UpperLetters[i] = c]]

UpperCaseOf ==
    [c \in {LowerLetters[i] : i \in 1..Len(LowerLetters)} |->
        UpperLetters[CHOOSE i \in 1..Len(LowerLetters) : LowerLetters[i] = c]]

CharToLowerCase(c) == IF c \in DOMAIN LowerCaseOf THEN LowerCaseOf[c] ELSE c

CharToUpperCase(c) == IF c \in DOMAIN UpperCaseOf THEN UpperCaseOf[c] ELSE c

ToLowerCase(s) == [i \in 1..Len(s) |-> CharToLowerCase(s[i])]

ToUpperCase(s) == [i \in 1..Len(s) |-> CharToUpperCase(s[i])]

RECURSIVE TrimStart(_)
TrimStart(s) ==
    IF s # <<>> /\ s[1] \in Whitespace THEN TrimStart(Tail(s)) ELSE s

RECURSIVE TrimEnd(_)
TrimEnd(s) ==
    IF s # <<>> /\ s[Len(s)] \in Whitespace
    THEN TrimEnd(SubSeq(s, 1, Len(s) - 1)) ELSE s

Trim(s) == TrimEnd(TrimStart(s))

\* The index of the first comma of s at or after i, 0 when there is none.
RECURSIVE IndexOfComma(_, _)
IndexOfComma(s, i) ==
    IF i > Len(s) THEN 0
    ELSE IF s[i] = "," THEN i ELSE IndexOfComma(s, i + 1)

\* s.split(',')[0]
BeforeFirstComma(s) ==
    LET k == IndexOfComma(s, 1)
    IN  IF k = 0 THEN s ELSE SubSeq(s, 1, k - 1)

(***************************************************************************)
(* RoutesDB.routes: the seeded catalog, in declaration order.              *)
(***************************************************************************)
SaoPauloSP == <<"S", "ã", "o", " ", "P", "a", "u", "l", "o", ",", " ", "S", "P">>
RioDeJaneiroRJ == <<"R", "i", "o", " ", "d", "e", " ", "J", "a", "n", "e", "i", "r", "o", ",", " ", "R", "J">>
BrasiliaDF == <<"B", "r", "a", "s", "í", "l", "i", "a", ",", " ", "D", "F">>
BeloHorizonteMG == <<"B", "e", "l", "o", " ", "H", "o", "r", "i", "z", "o", "n", "t", "e", ",", " ", "M", "G">>
SalvadorBA == <<"S", "a", "l", "v", "a", "d", "o", "r", ",", " ", "B", "A">>
CuritibaPR == <<"C", "u", "r", "i", "t", "i", "b", "a", ",", " ", "P", "R">>
ManausAM == <<"M", "a", "n", "a", "u", "s", ",", " ", "A", "M">>
RecifePE == <<"R", "e", "c", "i", "f", "e", ",", " ", "P", "E">>
CampinasSP == <<"C", "a", "m", "p", "i", "n", "a", "s", ",", " ", "S", "P">>
SantosSP == <<"S", "a", "n", "t", "o", "s", ",", " ", "S", "P">>
SorocabaSP == <<"S", "o", "r", "o", "c", "a", "b", "a", ",", " ", "S", "P">>
RibeiraoPretoSP == <<"R", "i", "b", "e", "i", "r", "ã", "o", " ", "P", "r", "e", "t", "o", ",", " ", "S", "P">>
NiteroiRJ == <<"N", "i", "t", "e", "r", "ó", "i", ",", " ", "R", "J">>
DuqueDeCaxiasRJ == <<"D", "u", "q", "u", "e", " ", "d", "e", " ", "C", "a", "x", "i", "a", "s", ",", " ", "R", "J">>
PetropolisRJ == <<"P", "e", "t", "r", "ó", "p", "o", "l", "i", "s", ",", " ", "R", "J">>
AngraDosReisRJ == <<"A", "n", "g", "r", "a", " ", "d", "o", "s", " ", "R", "e", "i", "s", ",", " ", "R", "J">>
OuroPretoMG == <<"O", "u", "r", "o", " ", "P", "r", "e", "t", "o", ",", " ", "M", "G">>
MontesClarosMG == <<"M", "o", "n", "t", "e", "s", " ", "C", "l", "a", "r", "o", "s", ",", " ", "M", "G">>
JuizDeForaMG == <<"J", "u", "i", "z", " ", "d", "e", " ", "F", "o", "r", "a", ",", " ", "M", "G">>
UberabaMG == <<"U", "b", "e", "r", "a", "b", "a", ",", " ", "M", "G">>
LondrinaPR == <<"L", "o", "n", "d", "r", "i", "n", "a", ",", " ", "P", "R">>
MaringaPR == <<"M", "a", "r", "i", "n", "g", "á", ",", " ", "P", "R">>
FozDoIguacuPR == <<"F", "o", "z", " ", "d", "o", " ", "I", "g", "u", "a", "ç", "u", ",", " ", "P", "R">>
FeiraDeSantanaBA == <<"F", "e", "i", "r", "a", " ", "d", "e", " ", "S", "a", "n", "t", "a", "n", "a", ",", " ", "B", "A">>
VitoriaDaConquistaBA == <<"V", "i", "t", "ó", "r", "i", "a", " ", "d", "a", " ", "C", "o", "n", "q", "u", "i", "s", "t", "a", ",", " ", "B", "A">>
CamacariBA == <<"C", "a", "m", "a", "ç", "a", "r", "i", ",", " ", "B", "A">>
FortalezaCE == <<"F", "o", "r", "t", "a", "l", "e", "z", "a", ",", " ", "C", "E">>
SobralCE == <<"S", "o", "b", "r", "a", "l", ",", " ", "C", "E">>
JuazeiroDoNorteCE == <<"J", "u", "a", "z", "e", "i", "r", "o", " ", "d", "o", " ", "N", "o", "r", "t", "e", ",", " ", "C", "E">>
OlindaPE == <<"O", "l", "i", "n", "d", "a", ",", " ", "P", "E">>
CaruaruPE == <<"C", "a", "r", "u", "a", "r", "u", ",", " ", "P", "E">>
GoianiaGO == <<"G", "o", "i", "â", "n", "i", "a", ",", " ", "G", "O">>
AnapolisGO == <<"A", "n", "á", "p", "o", "l", "i", "s", ",", " ", "G", "O">>
VitoriaES == <<"V", "i", "t", "ó", "r", "i", "a", ",", " ", "E", "S">>
VilaVelhaES == <<"V", "i", "l", "a", " ", "V", "e", "l", "h", "a", ",", " ", "E", "S">>
CachoeiroDeItapemirimES == <<"C", "a", "c", "h", "o", "e", "i", "r", "o", " ", "d", "e", " ", "I", "t", "a", "p", "e", "m", "i", "r", "i", "m", ",", " ", "E", "S">>
PortoAlegreRS == <<"P", "o", "r", "t", "o", " ", "A", "l", "e", "g", "r", "e", ",", " ", "R", "S">>
CaxiasDoSulRS == <<"C", "a", "x", "i", "a", "s", " ", "d", "o", " ", "S", "u", "l", ",", " ", "R", "S">>
PelotasRS == <<"P", "e", "l", "o", "t", "a", "s", ",", " ", "R", "S">>

Route(o, d, km) == [origin |-> o, destination |-> d, distanceKm |-> km]

SeedRoutes ==
    <<
       Route(SaoPauloSP, RioDeJaneiroRJ, 430),
       Route(SaoPauloSP, BrasiliaDF, 1015),
       Route(RioDeJaneiroRJ, BrasiliaDF, 1148),
       Route(SaoPauloSP, BeloHorizonteMG, 586),
       Route(RioDeJaneiroRJ, BeloHorizonteMG, 716),
       Route(SaoPauloSP, SalvadorBA, 1945),
       Route(RioDeJaneiroRJ, SalvadorBA, 1959),
       Route(SaoPauloSP, CuritibaPR, 408),
       Route(SaoPauloSP, ManausAM, 3150),
       Route(SaoPauloSP, RecifePE, 2430),
       Route(SaoPauloSP, CampinasSP, 95),
       Route(SaoPauloSP, SantosSP, 70),
       Route(SaoPauloSP, SorocabaSP, 108),
       Route(SaoPauloSP, RibeiraoPretoSP, 312),
       Route(CampinasSP, RibeiraoPretoSP, 217),
       Route(RioDeJaneiroRJ, NiteroiRJ, 13),
       Route(RioDeJaneiroRJ, DuqueDeCaxiasRJ, 35),
       Route(RioDeJaneiroRJ, PetropolisRJ, 68),
       Route(RioDeJaneiroRJ, AngraDosReisRJ, 165),
       Route(BeloHorizonteMG, OuroPretoMG, 100),
       Route(BeloHorizonteMG, MontesClarosMG, 418),
       Route(BeloHorizonteMG, JuizDeForaMG, 290),
       Route(BeloHorizonteMG, UberabaMG, 467),
       Route(CuritibaPR, LondrinaPR, 398),
       Route(CuritibaPR, MaringaPR, 409),
       Route(CuritibaPR, FozDoIguacuPR, 645),
       Route(SalvadorBA, FeiraDeSantanaBA, 110),
       Route(SalvadorBA, VitoriaDaConquistaBA, 710),
       Route(SalvadorBA, CamacariBA, 52),
       Route(FortalezaCE, SobralCE, 240),
       Route(FortalezaCE, JuazeiroDoNorteCE, 530),
       Route(RecifePE, OlindaPE, 8),
       Route(RecifePE, CaruaruPE, 134),
       Route(BrasiliaDF, GoianiaGO, 209),
       Route(GoianiaGO, AnapolisGO, 54),
       Route(VitoriaES, VilaVelhaES, 25),
       Route(VitoriaES, CachoeiroDeItapemirimES, 115),
       Route(PortoAlegreRS, CaxiasDoSulRS, 230),
       Route(PortoAlegreRS, PelotasRS, 280)
    >>

(***************************************************************************)
(* JavaScript values as they are returned to a caller.                     *)
(***************************************************************************)
Null == [type |-> "null"]

Number(n) == [type |-> "number", value |-> n]

Array(s) == [type |-> "array", value |-> s]

NoCall == [op |-> "none"]

(***************************************************************************)
(* RoutesDB.findDistance.                                                  *)
(***************************************************************************)
\* Mutant of NormalizeInput: the argument is trimmed but its case is kept.
MutNormalizeKeepsCase(s) == Trim(s)

NormalizeInput(s) == ToLowerCase(Trim(s))

\* p is a prefix of s.
IsPrefix(p, s) == Len(p) <= Len(s) /\ SubSeq(s, 1, Len(p)) = p

\* Mutant of RouteMatches: the reverse direction is not tried.
MutRouteMatchesOneWay(route, normalizedOrigin, normalizedDestination) ==
    LET routeOrigin          == ToLowerCase(route.origin)
        routeDestination     == ToLowerCase(route.destination)
        routeOriginCity      == Trim(BeforeFirstComma(routeOrigin))
        routeDestinationCity == Trim(BeforeFirstComma(routeDestination))
        originCity           == Trim(BeforeFirstComma(normalizedOrigin))
        destinationCity      == Trim(BeforeFirstComma(normalizedDestination))
    IN  \/ routeOrigin = normalizedOrigin /\ routeDestination = normalizedDestination
        \/ routeOriginCity = originCity /\ routeDestinationCity = destinationCity

\* Mutant of RouteMatches: only the full labels are compared.
MutRouteMatchesExactOnly(route, normalizedOrigin, normalizedDestination) ==
    LET routeOrigin      == ToLowerCase(route.origin)
        routeDestination == ToLowerCase(route.destination)
    IN  \/ routeOrigin = normalizedOrigin /\ routeDestination = normalizedDestination
        \/ routeOrigin = normalizedDestination /\ routeDestination = normalizedOrigin

\* Mutant of RouteMatches: a city matches when the route's city starts with
\* the text given (a startsWith in place of ===).
MutRouteMatchesPrefix(route, normalizedOrigin, normalizedDestination) ==
    LET routeOrigin          == ToLowerCase(route.origin)
        routeDestination     == ToLowerCase(route.destination)
        routeOriginCity      == Trim(BeforeFirstComma(routeOrigin))
        routeDestinationCity == Trim(BeforeFirstComma(routeDestination))
        originCity           == Trim(BeforeFirstComma(normalizedOrigin))
        destinationCity      == Trim(BeforeFirstComma(normalizedDestination))
    IN  \/ routeOrigin = normalizedOrigin /\ routeDestination = normalizedDestination
        \/ routeOrigin = normalizedDestination /\ routeDestination = normalizedOrigin
        \/ IsPrefix(originCity, routeOriginCity) /\ IsPrefix(destinationCity, routeDestinationCity)
        \/ IsPrefix(destinationCity, routeOriginCity) /\ IsPrefix(originCity, routeDestinationCity)

\* The body of the for loop for one route: the two exact comparisons and
\* the two comparisons on the text before the first comma.
RouteMatches(route, normalizedOrigin, normalizedDestination) ==
    LET routeOrigin          == ToLowerCase(route.origin)
        routeDestination     == ToLowerCase(route.destination)
        routeOriginCity      == Trim(BeforeFirstComma(routeOrigin))
        routeDestinationCity == Trim(BeforeFirstComma(routeDestination))
        originCity           == Trim(BeforeFirstComma(normalizedOrigin))
        destinationCity      == Trim(BeforeFirstComma(normalizedDestination))
    IN  \/ routeOrigin = normalizedOrigin /\ routeDestination = normalizedDestination
        \/ routeOrigin = normalizedDestination /\ routeDestination = normalizedOrigin
        \/ routeOriginCity = originCity /\ routeDestinationCity = destinationCity
        \/ routeOriginCity = destinationCity /\ routeDestinationCity = originCity

RECURSIVE FindDistanceFrom(_, _, _, _)
FindDistanceFrom(rts, i, normalizedOrigin, normalizedDestination) ==
    IF i > Len(rts) THEN Null
    ELSE IF RouteMatches(rts[i], normalizedOrigin, normalizedDestination)
         THEN Number(rts[i].distanceKm)
         ELSE FindDistanceFrom(rts, i + 1, normalizedOrigin, normalizedDestination)

FindDistance(rts, origin, destination) ==
    FindDistanceFrom(rts, 1, NormalizeInput(origin), NormalizeInput(destination))

(***************************************************************************)
(* String.prototype.localeCompare(b, 'pt-BR').  Portuguese has no tailoring *)
(* of the root collation: strings are compared first by their base         *)
(* characters (white space before punctuation before letters, letters      *)
(* without regard to accent or case), then by accents, then by case        *)
(* (lower before upper).  The tables cover the characters of the labels.   *)
(***************************************************************************)
CollationOrder ==
    <<"\t", " ", ",", "a", "b", "c", "d", "e", "f", "g", "h", "i", "j", "k", "l", "m", "n", "o", "p", "q", "r", "s", "t", "u", "v", "w", "x", "y", "z">>

AccentOrder == <<"none", "acute", "circumflex", "tilde", "cedilla">>

\* The accented lower-case letters as base letter and accent.
Decomposition ==
    [c \in {"á", "â", "ã", "ç", "í", "ó"} |->
        CASE c = "á" -> <<"a", "acute">>
          [] c = "â" -> <<"a", "circumflex">>
          [] c = "ã" -> <<"a", "tilde">>
          [] c = "ç" -> <<"c", "cedilla">>
          [] c = "í" -> <<"i", "acute">>
          [] c = "ó" -> <<"o", "acute">>]

PositionIn(seq, x) == CHOOSE i \in 1..Len(seq) : seq[i] = x

PrimaryWeight(c) ==
    LET l == CharToLowerCase(c)
    IN  PositionIn(CollationOrder, IF l \in DOMAIN Decomposition THEN Decomposition[l][1] ELSE l)

SecondaryWeight(c) ==
    LET l == CharToLowerCase(c)
    IN  PositionIn(AccentOrder, IF l \in DOMAIN Decomposition THEN Decomposition[l][2] ELSE "none")

TertiaryWeight(c) == IF c \in DOMAIN LowerCaseOf THEN 1 ELSE 0

\* Lexicographic comparison of two sequences of weights from position i:
\* -1, 0 or 1.
RECURSIVE CompareWeights(_, _, _)
CompareWeights(x, y, i) ==
    IF i > Len(x) /\ i > Len(y) THEN 0
    ELSE IF i > Len(x) THEN -1
    ELSE IF i > Len(y) THEN 1
    ELSE IF x[i] < y[i] THEN -1
    ELSE IF x[i] > y[i] THEN 1
    ELSE CompareWeights(x, y, i + 1)

\* localeCompare comparing code units instead of collation weights: letters
\* in the order of UpperLetters and LowerLetters, accented ones last.
MutCompareCodeUnits(a, b) ==
    LET CodeOrder == <<"\t", " ", ",">> \o UpperLetters \o LowerLetters
    IN  CompareWeights([i \in 1..Len(a) |-> PositionIn(CodeOrder, a[i])],
                       [i \in 1..Len(b) |-> PositionIn(CodeOrder, b[i])], 1)

LocaleCompare(a, b) ==
    LET primary == CompareWeights([i \in 1..Len(a) |-> PrimaryWeight(a[i])],
                                  [i \in 1..Len(b) |-> PrimaryWeight(b[i])], 1)
        secondary == CompareWeights([i \in 1..Len(a) |-> SecondaryWeight(a[i])],
                                    [i \in 1..Len(b) |-> SecondaryWeight(b[i])], 1)
        tertiary == CompareWeights([i \in 1..Len(a) |-> TertiaryWeight(a[i])],
                                   [i \in 1..Len(b) |-> TertiaryWeight(b[i])], 1)
    IN  IF primary # 0 THEN primary
        ELSE IF secondary # 0 THEN secondary
        ELSE tertiary

(***************************************************************************)
(* RoutesDB.getAllCities.                                                   *)
(***************************************************************************)
\* The labels in the order in which the forEach of getAllCities hands them
\* to cities.add: origin, then destination, route by route.
AddedLabels(rts) ==
    [k \in 1..2 * Len(rts) |->
        IF k % 2 = 1 THEN rts[(k + 1) \div 2].origin ELSE rts[k \div 2].destination]

\* A Set filled by add, as Array.from lists it: each value once, in the
\* order of its first insertion.
ArrayFromSet(added) ==
    LET first == {k \in 1..Len(added) : \A j \in 1..k - 1 : added[j] # added[k]}
        place == [k \in first |-> Cardinality({j \in first : j <= k})]
    IN  [m \in 1..Cardinality(first) |-> added[CHOOSE k \in first : place[k] = m]]

\* Array.prototype.sort with the comparator of getAllCities.  The sort is
\* stable: an element goes after those that compare below it and after
\* the earlier ones that compare equal to it.
SortByLocale(cities) ==
    LET n == Len(cities)
        place == [i \in 1..n |->
                    1 + Cardinality({j \in 1..n :
                          LET c == LocaleCompare(cities[j], cities[i])
                          IN  c < 0 \/ (c = 0 /\ j < i)})]
    IN  [m \in 1..n |-> cities[CHOOSE i \in 1..n : place[i] = m]]

GetAllCities(rts) == SortByLocale(ArrayFromSet(AddedLabels(rts)))

(***************************************************************************)
(* CONFIG.EMISSION_FACTORS, in declaration order (the order of for..in).   *)
(***************************************************************************)
DistanceScale == 100

FactorScale == 1000

EmissionFactors ==
    << [mode |-> "bicycle", factor |-> 0],
       [mode |-> "car",     factor |-> 120],
       [mode |-> "bus",     factor |-> 89],
       [mode |-> "truck",   factor |-> 960] >>

ModesOf(fs) == {fs[i].mode : i \in 1..Len(fs)}

FactorOf(fs, mode) == fs[CHOOSE i \in 1..Len(fs) : fs[i].mode = mode].factor

(***************************************************************************)
(* Math.round(num / den) for den > 0: the nearest integer, a half rounded  *)
(* towards plus infinity.                                                  *)
(***************************************************************************)
\* Mutant of MathRound: Math.floor in place of Math.round.
MutMathFloor(num, den) == num \div den

\* A rounding that takes an exact half away from zero: up when the value is
\* positive, down when it is negative.
RoundHalfAwayFromZero(num, den) ==
    IF num >= 0 THEN (2 * num + den) \div (2 * den)
    ELSE -((2 * (-num) + den) \div (2 * den))

MathRound(num, den) == (2 * num + den) \div (2 * den)

(***************************************************************************)
(* Calculator.calculateEmission: the returned value in hundredths of a kg, *)
(* and the messages it writes with console.error.                          *)
(***************************************************************************)
CalculateEmission(fs, distanceKm, transportMode) ==
    IF transportMode \notin ModesOf(fs)
    THEN 0
    ELSE MathRound(distanceKm * FactorOf(fs, transportMode),
                   (DistanceScale * FactorScale) \div 100)

CalculateEmissionLog(fs, transportMode) ==
    IF transportMode \notin ModesOf(fs)
    THEN << <<"Invalid transport mode", transportMode>> >>
    ELSE <<>>

(***************************************************************************)
(* Calculator.calculateAllModes.                                           *)
(***************************************************************************)
\* Math.round((emission / carEmission) * 10000), in hundredths of a percent.
\* The quotient is split into its integer part and remainder so that the
\* exact value is computed within 32-bit integers.
\* Mutant of PercentageVsCar: the guard tests the mode's own emission, and a
\* car emission of 0 yields 100 percent.
MutPercentageGuardsEmission(emission, carEmission) ==
    IF emission > 0 /\ carEmission > 0
    THEN (emission \div carEmission) * 10000
         + MathRound((emission % carEmission) * 10000, carEmission)
    ELSE IF emission > 0 THEN 10000 ELSE 0

PercentageVsCar(emission, carEmission) ==
    IF carEmission > 0
    THEN (emission \div carEmission) * 10000
         + MathRound((emission % carEmission) * 10000, carEmission)
    ELSE 0

\* Array.prototype.sort with (a, b) => a.emission - b.emission: a stable
\* sort, here by insertion after the last element that is not greater.
\* Mutant of InsertByEmission: an element is placed before the elements it
\* is equal to (a sort that is not stable).
RECURSIVE MutInsertBeforeEqual(_, _)
MutInsertBeforeEqual(sorted, x) ==
    IF sorted = <<>> THEN <<x>>
    ELSE IF sorted[Len(sorted)].emission - x.emission < 0
         THEN Append(sorted, x)
         ELSE Append(MutInsertBeforeEqual(SubSeq(sorted, 1, Len(sorted) - 1), x),
                     sorted[Len(sorted)])

RECURSIVE InsertByEmission(_, _)
InsertByEmission(sorted, x) ==
    IF sorted = <<>> THEN <<x>>
    ELSE IF sorted[Len(sorted)].emission - x.emission <= 0
         THEN Append(sorted, x)
         ELSE Append(InsertByEmission(SubSeq(sorted, 1, Len(sorted) - 1), x),
                     sorted[Len(sorted)])

RECURSIVE SortByEmission(_)
SortByEmission(results) ==
    IF results = <<>> THEN <<>>
    ELSE InsertByEmission(SortByEmission(SubSeq(results, 1, Len(results) - 1)),
                          results[Len(results)])

CalculateAllModes(fs, distanceKm) ==
    LET carEmission == CalculateEmission(fs, distanceKm, "car")
        results == [i \in 1..Len(fs) |->
                      LET emission == CalculateEmission(fs, distanceKm, fs[i].mode)
                      IN  [mode            |-> fs[i].mode,
                           emission        |-> emission,
                           percentageVsCar |-> PercentageVsCar(emission, carEmission)]]
    IN  SortByEmission(results)

(***************************************************************************)
(* CONFIG.CARBON_CREDIT.                                                   *)
(***************************************************************************)
CarbonCredit == [KG_PER_CREDIT |-> 1000, PRICE_MIN_BRL |-> 50, PRICE_MAX_BRL |-> 150]

\* Emission amounts handed to calculateSavings and calculateCarbonCredits
\* are counted in 1/KgScale kg, credits in 1/CreditScale credit.
KgScale == 1000

CreditScale == 10000

\* 10 ^ n
RECURSIVE Pow10(_)
Pow10(n) == IF n = 0 THEN 1 ELSE 10 * Pow10(n - 1)

\* The integer part of (num / den) * 10 ^ digits for den > 0, by long
\* division, so that no intermediate value leaves 32-bit integers.
RECURSIVE ScaledQuotient(_, _, _)
ScaledQuotient(num, den, digits) ==
    IF digits = 0 THEN num \div den
    ELSE (num \div den) * Pow10(digits)
         + ScaledQuotient((num % den) * 10, den, digits - 1)

\* Math.round((num / den) * 10 ^ digits) for den > 0: floor(x + 1/2) is
\* floor((floor(2x) + 1) / 2).
MathRoundScaled(num, den, digits) ==
    (ScaledQuotient(2 * num, den, digits) + 1) \div 2

(***************************************************************************)
(* Calculator.calculateSavings: savedKg in hundredths of a kg, percentage  *)
(* in hundredths of a percent.                                             *)
(***************************************************************************)
\* Mutant of SavingsPercentage: the percentage is taken from the exact
\* difference, not from the rounded savedKg.
MutSavingsPercentageUnrounded(savedKg, emission, baselineEmission) ==
    IF baselineEmission > 0
    THEN MathRoundScaled(baselineEmission - emission, baselineEmission, 4)
    ELSE 0

\* Mutant of SavingsPercentage: the saving is divided by the emission, not by
\* the baseline.
MutSavingsPercentageOfEmission(savedKg, emission, baselineEmission) ==
    IF baselineEmission > 0 /\ emission > 0
    THEN MathRoundScaled(savedKg * (KgScale \div 100), emission, 4)
    ELSE 0

SavingsPercentage(savedKg, emission, baselineEmission) ==
    IF baselineEmission > 0
    THEN MathRoundScaled(savedKg * (KgScale \div 100), baselineEmission, 4)
    ELSE 0

CalculateSavings(emission, baselineEmission) ==
    LET savedKg == MathRound((baselineEmission - emission) * 100, KgScale)
    IN  [savedKg    |-> savedKg,
         percentage |-> SavingsPercentage(savedKg, emission, baselineEmission)]

\* calculateCarbonCredits cutting the fifth decimal off instead of rounding.
MutCarbonCreditsTruncated(cc, emissionKg) ==
    ScaledQuotient(emissionKg, KgScale * cc.KG_PER_CREDIT, 4)

(***************************************************************************)
(* Calculator.calculateCarbonCredits: credits in 1/CreditScale credit.     *)
(***************************************************************************)
CalculateCarbonCredits(cc, emissionKg) ==
    MathRoundScaled(emissionKg, KgScale * cc.KG_PER_CREDIT, 4)

\* estimateCreditPrice taking the average of the unrounded products.
MutEstimateAverageUnrounded(cc, credits) ==
    [min |-> MathRound(credits * cc.PRICE_MIN_BRL * 100, CreditScale),
     max |-> MathRound(credits * cc.PRICE_MAX_BRL * 100, CreditScale),
     average |-> MathRound(credits * (cc.PRICE_MIN_BRL + cc.PRICE_MAX_BRL) * 100,
                           2 * CreditScale)]

(***************************************************************************)
(* Calculator.estimateCreditPrice: prices in hundredths of a BRL.          *)
(***************************************************************************)
EstimateCreditPrice(cc, credits) ==
    LET min == MathRound(credits * cc.PRICE_MIN_BRL * 100, CreditScale)
        max == MathRound(credits * cc.PRICE_MAX_BRL * 100, CreditScale)
        average == MathRound(min + max, 2)
    IN  [min |-> min, max |-> max, average |-> average]

(***************************************************************************)
(* Inputs of the operations.                                               *)
(***************************************************************************)
MaxPad == 1

MaxFine == 60

MaxNegative == 20

MaxCatalog == 2

Nowhere == <<"N", "o", "w", "h", "e", "r", "e">>

NowhereElse == <<"N", "o", "w", "h", "e", "r", "e", " ", "E", "l", "s", "e">>

Blank(n) == [i \in 1..n |-> " "]

PadWith(s, c, n) == [i \in 1..n |-> c] \o s \o [i \in 1..n |-> c]

SwapCase(s) ==
    [i \in 1..Len(s) |-> IF CharToLowerCase(s[i]) = s[i]
                         THEN CharToUpperCase(s[i]) ELSE CharToLowerCase(s[i])]

\* A label without its region suffix: the text before the first comma.
BareCity(label) == BeforeFirstComma(label)

\* The ways a caller may write a label.
Forms == {"label", "city", "shouted"}

ApplyForm(form, label) ==
    CASE form = "label"   -> label
      [] form = "city"    -> BareCity(label)
      [] form = "shouted" -> PadWith(ToUpperCase(label), " ", MaxPad)

\* The two labels of every route in both directions, and the origin of
\* every route with the destination of the route declared after it.
LabelPairs(rts) ==
    {<<rts[i].origin, rts[i].destination>> : i \in 1..Len(rts)}
    \cup {<<rts[i].destination, rts[i].origin>> : i \in 1..Len(rts)}
    \cup {<<rts[i].origin, rts[(i % Len(rts)) + 1].destination>> : i \in 1..Len(rts)}

\* Strings that are no label of the seeded catalog, and one that is.
Strangers ==
    {Blank(n) : n \in 0..MaxPad}
    \cup {Nowhere, NowhereElse, SaoPauloSP,
          BareCity(SaoPauloSP) \o <<",", " ", "R", "J">>,
          <<",", " ", "S", "P">>}

\* The argument pairs offered to findDistance.
LookupPairs(rts) ==
    {<<ApplyForm(f, p[1]), ApplyForm(g, p[2])>> : p \in LabelPairs(rts), f \in Forms, g \in Forms}
    \cup (Strangers \X Strangers)

SeedDistances == {SeedRoutes[i].distanceKm * DistanceScale : i \in 1..Len(SeedRoutes)}

Distances == SeedDistances \cup (-MaxNegative..MaxFine) \cup {5 * DistanceScale}

UnknownMode == "plane"

MaxAmount == 30

MaxCredits == 40

\* Emission amounts in 1/KgScale kg: the multiples of 1/8 kg from
\* -MaxNegative/8 to MaxAmount/8.  They and their differences are binary
\* fractions, so that baseline - emission is an exact half of 0.01 kg in
\* the floating-point arithmetic of the code whenever it is one here.
Amounts == {k * (KgScale \div 8) : k \in -MaxNegative..MaxAmount}

\* The argument pairs offered to calculateSavings: those amounts, the
\* emissions of 430 km by bus and by car, and 0.017 kg against 0.001 kg.
SavingsPairs ==
    (Amounts \X Amounts)
    \cup {<<38270, 51600>>, <<51600, 38270>>, <<17, 1>>, <<1, 17>>}

\* Emission amounts handed to calculateCarbonCredits: a fine grid from 0
\* past 0.05 kg, the emissions of 430 km by bus and by car, and 1000 kg.
CreditEmissions == (0..MaxAmount + MaxAmount) \cup {38270, 51600, 1000 * KgScale}

\* Credits in 1/CreditScale credit: a fine grid from 0, and 1 credit.
CreditAmounts == (0..MaxCredits) \cup {CreditScale, 383, 516}

\* An object returned to the caller.
Object(o) == [type |-> "object", value |-> o]

(***************************************************************************)
(* The program: the static tables, and one action per operation.  A caller *)
(* makes one call at a time: call and ret hold the call in progress and    *)
(* its returned value until the caller drops them (Return).                *)
(***************************************************************************)
(* The page.  CONFIG.TRANSPORT_MODES, the UI helpers and the state of the  *)
(* document when DOMContentLoaded has run.                                  *)
(***************************************************************************)
TransportModes ==
    [m \in {"bicycle", "car", "bus", "truck"} |->
        CASE m = "bicycle" -> [label |-> "Bicicleta", color |-> "#3b82f6"]
          [] m = "car"     -> [label |-> "Carro",     color |-> "#ef4444"]
          [] m = "bus"     -> [label |-> "Ônibus",    color |-> "#f59e0b"]
          [] m = "truck"   -> [label |-> "Caminhão",  color |-> "#8b5cf6"]]

Sections == {"results", "comparison", "carbon-credits"}

\* The helper texts and the alerts, without the symbol that some begin with.
HelperAutomatic == "A distância será preenchida automaticamente"

HelperFound == "Distância encontrada automaticamente"

HelperNotFound == "Rota não encontrada. Insira a distância manualmente ou marque a opção abaixo."

HelperManual == "Digite a distância manualmente"

AlertFillCities == "Por favor, preencha os campos de origem e destino."

AlertFillDistance == "Por favor, preencha a distância com um valor maior que zero."

AlertError == "Ocorreu um erro ao processar o cálculo. Por favor, tente novamente."

\* The document after loading: the button enabled with its own text, the
\* three sections hidden, the distance field empty and editable.
PageLoaded ==
    /\ submitButton = [disabled |-> FALSE, content |-> "text", originalText |-> ""]
    /\ hidden = Sections
    /\ timer = Null
    /\ alerted = <<>>
    /\ contents = [results |-> Null, comparison |-> Null, credits |-> Null]
    /\ originInput = <<>>
    /\ destinationInput = <<>>
    /\ distanceInput = [value |-> <<>>, readonly |-> FALSE, success |-> FALSE]
    /\ helperText = [textContent |-> HelperAutomatic, color |-> ""]
    /\ manualDistance = FALSE

\* UI.showLoading: the text is saved, the button disabled, a spinner shown.
ShowLoading(button) ==
    [disabled |-> TRUE, content |-> "spinner",
     originalText |-> IF button.content = "text" THEN "text" ELSE "Calculando..."]

\* UI.hideLoading: the button enabled, the saved text restored.
HideLoading(button) ==
    [disabled |-> FALSE,
     content |-> IF button.originalText # "" THEN button.originalText ELSE button.content,
     originalText |-> button.originalText]

\* UI.hideElement and UI.showElement on the set of hidden section ids.
HideElement(hid, elementId) == hid \cup {elementId}

ShowElement(hid, elementId) == hid \ {elementId}

(***************************************************************************)
(* parseFloat on the text of the distance field, in 1/DistanceScale km:    *)
(* leading white space, a sign, digits, a fraction (its first two digits   *)
(* are kept); the text after the number is ignored; NaN without a digit.   *)
(***************************************************************************)
NaN == [type |-> "NaN"]

Digits == <<"0", "1", "2", "3", "4", "5", "6", "7", "8", "9">>

IsDigit(c) == \E i \in 1..Len(Digits) : Digits[i] = c

\* The number of digits of s from position i on.
RECURSIVE DigitRun(_, _)
DigitRun(s, i) ==
    IF i <= Len(s) /\ IsDigit(s[i]) THEN 1 + DigitRun(s, i + 1) ELSE 0

\* The value of the n digits of s from position i on.
RECURSIVE DigitsValue(_, _, _)
DigitsValue(s, i, n) ==
    IF n = 0 THEN 0
    ELSE 10 * DigitsValue(s, i, n - 1) + (PositionIn(Digits, s[i + n - 1]) - 1)

ParseFloat(text) ==
    LET s == TrimStart(text)
        signed == s # <<>> /\ s[1] \in {"-", "+"}
        start == IF signed THEN 2 ELSE 1
        whole == DigitRun(s, start)
        point == start + whole
        fraction == IF point <= Len(s) /\ s[point] = "." THEN DigitRun(s, point + 1) ELSE 0
        tenths == IF fraction >= 1 THEN PositionIn(Digits, s[point + 1]) - 1 ELSE 0
        hundredths == IF fraction >= 2 THEN PositionIn(Digits, s[point + 2]) - 1 ELSE 0
        magnitude == DigitsValue(s, start, whole) * DistanceScale
                     + tenths * (DistanceScale \div 10) + hundredths
    IN  IF whole + fraction = 0 THEN NaN
        ELSE Number(IF signed /\ s[1] = "-" THEN -magnitude ELSE magnitude)

(***************************************************************************)
(* UI.renderResults, UI.renderComparison and UI.renderCarbonCredits: the   *)
(* data that the markup shows, or the TypeError of reading a property of   *)
(* undefined when the mode has no entry in CONFIG.TRANSPORT_MODES.         *)
(***************************************************************************)
TypeError == [type |-> "TypeError"]

RenderResults(data) ==
    IF data.mode \in DOMAIN TransportModes
    THEN [type |-> "html", origin |-> data.origin, destination |-> data.destination,
          distance |-> data.distance, emission |-> data.emission,
          label |-> TransportModes[data.mode].label,
          savings |-> IF data.savings.savedKg > 0 THEN Object(data.savings) ELSE Null]
    ELSE TypeError

RenderComparison(modesArray, selectedMode) ==
    IF \A i \in 1..Len(modesArray) : modesArray[i].mode \in DOMAIN TransportModes
    THEN [type |-> "html",
          modes |-> [i \in 1..Len(modesArray) |->
                       [label |-> TransportModes[modesArray[i].mode].label,
                        emission |-> modesArray[i].emission,
                        percentageVsCar |-> modesArray[i].percentageVsCar,
                        selected |-> modesArray[i].mode = selectedMode]]]
    ELSE TypeError

RenderCarbonCredits(creditsData) ==
    [type |-> "html", credits |-> creditsData.credits, price |-> creditsData.price]

(***************************************************************************)
(* The program: the static tables, and one action per operation.  A caller *)
(* makes one call at a time: call and ret hold the call in progress and    *)
(* its returned value until the caller drops them (Return).                *)
(***************************************************************************)
Init ==
    /\ routes = SeedRoutes
    /\ factors = EmissionFactors
    /\ credit = CarbonCredit
    /\ call = NoCall
    /\ ret = Null
    /\ console = <<>>
    /\ PageLoaded

FindDistanceCall ==
    /\ call = NoCall
    /\ \E pair \in LookupPairs(routes) :
        /\ call' = [op |-> "findDistance", origin |-> pair[1], destination |-> pair[2]]
        /\ ret' = FindDistance(routes, pair[1], pair[2])
        /\ console' = <<>>
        /\ UNCHANGED <<config, page, fields>>

GetAllCitiesCall ==
    /\ call = NoCall
    /\ call' = [op |-> "getAllCities"]
    /\ ret' = Array(GetAllCities(routes))
    /\ console' = <<>>
    /\ UNCHANGED <<config, page, fields>>

CalculateEmissionCall ==
    /\ call = NoCall
    /\ \E distanceKm \in Distances, transportMode \in ModesOf(factors) \cup {UnknownMode} :
        /\ call' = [op |-> "calculateEmission", distanceKm |-> distanceKm,
                    transportMode |-> transportMode]
        /\ ret' = Number(CalculateEmission(factors, distanceKm, transportMode))
        /\ console' = CalculateEmissionLog(factors, transportMode)
        /\ UNCHANGED <<config, page, fields>>

\* calculateAllModes sorting the factor table itself along with its result.
MutCalculateAllModesSortsTable ==
    /\ call = NoCall
    /\ \E distanceKm \in Distances :
        LET sorted == CalculateAllModes(factors, distanceKm)
        IN  /\ call' = [op |-> "calculateAllModes", distanceKm |-> distanceKm]
            /\ ret' = Array(sorted)
            /\ console' = <<>>
            /\ factors' = [i \in 1..Len(sorted) |->
                              [mode |-> sorted[i].mode,
                               factor |-> FactorOf(factors, sorted[i].mode)]]
            /\ UNCHANGED <<routes, credit, page, fields>>

CalculateAllModesCall ==
    /\ call = NoCall
    /\ \E distanceKm \in Distances :
        /\ call' = [op |-> "calculateAllModes", distanceKm |-> distanceKm]
        /\ ret' = Array(CalculateAllModes(factors, distanceKm))
        /\ console' = <<>>
        /\ UNCHANGED <<config, page, fields>>

CalculateSavingsCall ==
    /\ call = NoCall
    /\ \E pair \in SavingsPairs :
        /\ call' = [op |-> "calculateSavings", emission |-> pair[1],
                    baselineEmission |-> pair[2]]
        /\ ret' = Object(CalculateSavings(pair[1], pair[2]))
        /\ console' = <<>>
        /\ UNCHANGED <<config, page, fields>>

CalculateCarbonCreditsCall ==
    /\ call = NoCall
    /\ \E emissionKg \in CreditEmissions :
        /\ call' = [op |-> "calculateCarbonCredits", emissionKg |-> emissionKg]
        /\ ret' = Number(CalculateCarbonCredits(credit, emissionKg))
        /\ console' = <<>>
        /\ UNCHANGED <<config, page, fields>>

EstimateCreditPriceCall ==
    /\ call = NoCall
    /\ \E credits \in CreditAmounts :
        /\ call' = [op |-> "estimateCreditPrice", credits |-> credits]
        /\ ret' = Object(EstimateCreditPrice(credit, credits))
        /\ console' = <<>>
        /\ UNCHANGED <<config, page, fields>>

Return ==
    /\ call # NoCall
    /\ call' = NoCall
    /\ ret' = Null
    /\ console' = <<>>
    /\ UNCHANGED <<config, page, fields>>

Next ==
    \/ FindDistanceCall
    \/ GetAllCitiesCall
    \/ CalculateEmissionCall
    \/ CalculateAllModesCall
    \/ CalculateSavingsCall
    \/ CalculateCarbonCreditsCall
    \/ EstimateCreditPriceCall
    \/ Return

Spec == Init /\ [][Next]_vars

(***************************************************************************)
(* The form: handleFormSubmit and the callback it hands to setTimeout.     *)
(* The values that the controls hold when the submit event arrives are the *)
(* inputs of the handler; a disabled submit button submits nothing.        *)
(***************************************************************************)
NoneChecked == "none"

RadioChoices == {NoneChecked, UnknownMode} \cup DOMAIN TransportModes

\* Texts of the distance field that parseFloat reads as a number above 0,
\* and texts that it does not.
ValidDistanceTexts == { <<"4", "3", "0">>, <<"0", ".", "5">>, <<"5", "k", "m">> }

InvalidDistanceTexts == { <<>>, <<"a", "b", "c">>, <<"0">>, <<"-", "5">> }

Submission(o, d, km, checked) ==
    [origin |-> o, destination |-> d, distance |-> km, transport |-> checked]

\* The submissions offered: a complete form with every choice of transport,
\* and forms with one of origin, destination and distance left empty,
\* blank or otherwise invalid.
Submissions ==
    {Submission(SaoPauloSP, PadWith(RioDeJaneiroRJ, " ", MaxPad), km, checked) :
        km \in ValidDistanceTexts, checked \in RadioChoices}
    \cup {Submission(o, RioDeJaneiroRJ, <<"4", "3", "0">>, NoneChecked) :
            o \in {<<>>, Blank(MaxPad)}}
    \cup {Submission(SaoPauloSP, d, <<"4", "3", "0">>, NoneChecked) :
            d \in {<<>>, Blank(MaxPad)}}
    \cup {Submission(SaoPauloSP, RioDeJaneiroRJ, km, NoneChecked) :
            km \in InvalidDistanceTexts}

\* The setTimeout callback re-enabling the button only when nothing threw.
MutHideLoadingInTry(button, thrown) ==
    IF thrown THEN button ELSE HideLoading(button)

\* The finally block of the setTimeout callback.
Finally(button, thrown) == HideLoading(button)

HandleFormSubmit ==
    /\ ~submitButton.disabled
    /\ \E form \in Submissions :
        LET origin == Trim(form.origin)
            destination == Trim(form.destination)
            distance == ParseFloat(form.distance)
            selectedTransport ==
                IF form.transport = NoneChecked THEN "car" ELSE form.transport
        IN  /\ call' = [op |-> "handleFormSubmit", origin |-> form.origin,
                        destination |-> form.destination,
                        distance |-> form.distance, transport |-> form.transport]
            /\ ret' = Null
            /\ console' = <<>>
            /\ IF origin = <<>> \/ destination = <<>>
               THEN /\ alerted' = <<AlertFillCities>>
                    /\ UNCHANGED <<submitButton, hidden, timer>>
               ELSE IF distance = NaN \/ distance.value <= 0
               THEN /\ alerted' = <<AlertFillDistance>>
                    /\ UNCHANGED <<submitButton, hidden, timer>>
               ELSE /\ alerted' = <<>>
                    /\ submitButton' = ShowLoading(submitButton)
                    /\ hidden' = HideElement(HideElement(HideElement(hidden,
                                      "results"), "comparison"), "carbon-credits")
                    /\ timer' = [type |-> "timeout", origin |-> origin,
                                 destination |-> destination,
                                 distance |-> distance.value,
                                 selectedTransport |-> selectedTransport]
            /\ UNCHANGED <<config, contents, fields>>

Timeout ==
    /\ timer # Null
    /\ LET selectedModeEmission ==
                CalculateEmission(factors, timer.distance, timer.selectedTransport)
           carEmission == CalculateEmission(factors, timer.distance, "car")
           savings == CalculateSavings(selectedModeEmission * (KgScale \div 100),
                                       carEmission * (KgScale \div 100))
           allModesComparison == CalculateAllModes(factors, timer.distance)
           carbonCredits ==
                CalculateCarbonCredits(credit, selectedModeEmission * (KgScale \div 100))
           creditPricing == EstimateCreditPrice(credit, carbonCredits)
           resultsData == [origin |-> timer.origin, destination |-> timer.destination,
                           distance |-> timer.distance,
                           emission |-> selectedModeEmission,
                           mode |-> timer.selectedTransport, savings |-> savings]
           creditsData == [credits |-> carbonCredits, price |-> creditPricing]
           results == RenderResults(resultsData)
           comparison == RenderComparison(allModesComparison, timer.selectedTransport)
           thrown == results = TypeError \/ comparison = TypeError
       IN  /\ contents' =
                  IF results = TypeError THEN contents
                  ELSE IF comparison = TypeError
                       THEN [contents EXCEPT !.results = results]
                       ELSE [results |-> results, comparison |-> comparison,
                             credits |-> RenderCarbonCredits(creditsData)]
           /\ hidden' =
                  IF thrown THEN hidden
                  ELSE ShowElement(ShowElement(ShowElement(hidden,
                           "results"), "comparison"), "carbon-credits")
           /\ console' = CalculateEmissionLog(factors, timer.selectedTransport)
                          \o (IF thrown THEN << <<"Erro ao processar cálculo", "TypeError">> >>
                              ELSE <<>>)
           /\ alerted' = IF thrown THEN <<AlertError>> ELSE <<>>
           /\ submitButton' = Finally(submitButton, thrown)
           /\ call' = [op |-> "timeout", distance |-> timer.distance,
                       selectedTransport |-> timer.selectedTransport]
    /\ timer' = Null
    /\ ret' = Null
    /\ UNCHANGED <<config, fields>>

NextForm ==
    \/ HandleFormSubmit
    \/ Timeout

SpecForm == Init /\ [][NextForm]_vars

(***************************************************************************)
(* The distance autofill: CONFIG.setupDistanceAutofill installs            *)
(* autoFillDistance on the change events of origin and destination, and a  *)
(* listener on the change event of the manual-distance checkbox.           *)
(***************************************************************************)
\* The decimal digits of a natural number.
RECURSIVE DigitsOf(_)
DigitsOf(n) ==
    IF n < 10 THEN <<Digits[n + 1]>>
    ELSE Append(DigitsOf(n \div 10), Digits[(n % 10) + 1])

\* String(number) for a number of 1/DistanceScale km, as the assignment to
\* distanceInput.value converts it: no fraction when there is none, no
\* trailing zero.
NumberToString(n) ==
    LET magnitude == IF n < 0 THEN -n ELSE n
        whole == DigitsOf(magnitude \div DistanceScale)
        rest == magnitude % DistanceScale
        tenths == rest \div (DistanceScale \div 10)
        hundredths == rest % (DistanceScale \div 10)
        fraction == IF rest = 0 THEN <<>>
                    ELSE IF hundredths = 0 THEN <<".", Digits[tenths + 1]>>
                    ELSE <<".", Digits[tenths + 1], Digits[hundredths + 1]>>
    IN  (IF n < 0 THEN <<"-">> ELSE <<>>) \o whole \o fraction

\* autoFillDistance: the distance field and the helper text it leaves.  The
\* catalog holds whole kilometres.
AutoFillDistance(rts, originValue, destinationValue, distance, helper, checked) ==
    LET origin == Trim(originValue)
        destination == Trim(destinationValue)
        found == FindDistance(rts, origin, destination)
    IN  IF checked THEN [distanceInput |-> distance, helperText |-> helper]
        ELSE IF origin = <<>> \/ destination = <<>>
        THEN [distanceInput |-> [distance EXCEPT !.value = <<>>, !.success = FALSE],
              helperText |-> [textContent |-> HelperAutomatic, color |-> ""]]
        ELSE IF found # Null
        THEN [distanceInput |-> [value |-> NumberToString(found.value * DistanceScale),
                                 readonly |-> TRUE, success |-> TRUE],
              helperText |-> [textContent |-> HelperFound, color |-> "#10b981"]]
        ELSE [distanceInput |-> [distance EXCEPT !.value = <<>>, !.success = FALSE],
              helperText |-> [textContent |-> HelperNotFound, color |-> "#f59e0b"]]

\* What a user leaves in the origin or the destination field.
CityTexts == {<<>>, SaoPauloSP, PadWith(BareCity(RioDeJaneiroRJ), " ", MaxPad), Nowhere}

\* What a user types into the distance field while it is editable.
TypedDistances == { <<"7">> }

OriginChange ==
    /\ \E text \in CityTexts :
        LET filled == AutoFillDistance(routes, text, destinationInput,
                                       distanceInput, helperText, manualDistance)
        IN  /\ originInput' = text
            /\ distanceInput' = filled.distanceInput
            /\ helperText' = filled.helperText
    /\ call' = [op |-> "change", target |-> "origin"]
    /\ UNCHANGED <<config, page, ret, console, destinationInput, manualDistance>>

DestinationChange ==
    /\ \E text \in CityTexts :
        LET filled == AutoFillDistance(routes, originInput, text,
                                       distanceInput, helperText, manualDistance)
        IN  /\ destinationInput' = text
            /\ distanceInput' = filled.distanceInput
            /\ helperText' = filled.helperText
    /\ call' = [op |-> "change", target |-> "destination"]
    /\ UNCHANGED <<config, page, ret, console, originInput, manualDistance>>

ManualDistanceChange ==
    /\ manualDistance' = ~manualDistance
    /\ IF manualDistance'
       THEN /\ distanceInput' = [distanceInput EXCEPT !.readonly = FALSE]
            /\ helperText' = [textContent |-> HelperManual, color |-> ""]
       ELSE LET filled == AutoFillDistance(routes, originInput, destinationInput,
                              [distanceInput EXCEPT !.value = <<>>], helperText, FALSE)
            IN  /\ distanceInput' = filled.distanceInput
                /\ helperText' = filled.helperText
    /\ call' = [op |-> "change", target |-> "manual-distance"]
    /\ UNCHANGED <<config, page, ret, console, originInput, destinationInput>>

\* The user edits the distance field, which no listener observes; a
\* read-only field takes no input.
DistanceInput ==
    /\ ~distanceInput.readonly
    /\ \E text \in TypedDistances :
        distanceInput' = [distanceInput EXCEPT !.value = text]
    /\ call' = [op |-> "input", target |-> "distance"]
    /\ UNCHANGED <<config, page, ret, console, originInput, destinationInput,
                   helperText, manualDistance>>

NextAutofill ==
    \/ OriginChange
    \/ DestinationChange
    \/ ManualDistanceChange
    \/ DistanceInput

SpecAutofill == Init /\ [][NextAutofill]_vars

(***************************************************************************)
(* findDistance over other catalog contents: every catalog of at most      *)
(* MaxCatalog routes between a city A and a city B, each written with one  *)
(* of two regions; the i-th route declared has distance 10 * i.            *)
(***************************************************************************)
CatAX == <<"A", ",", " ", "X">>

CatAY == <<"A", ",", " ", "Y">>

CatBX == <<"B", ",", " ", "X">>

CatBY == <<"B", ",", " ", "Y">>

CatEnds == ({CatAX, CatAY} \X {CatBX, CatBY}) \cup ({CatBX, CatBY} \X {CatAX, CatAY})

Catalogs ==
    UNION {{[i \in 1..n |-> Route(ends[i][1], ends[i][2], 10 * i)] :
               ends \in [1..n -> CatEnds]} : n \in 1..MaxCatalog}

InitCat ==
    /\ routes \in Catalogs
    /\ factors = EmissionFactors
    /\ credit = CarbonCredit
    /\ call = NoCall
    /\ ret = Null
    /\ console = <<>>
    /\ PageLoaded

NextCat ==
    \/ FindDistanceCall
    \/ Return

SpecCat == InitCat /\ [][NextCat]_vars

(***************************************************************************)
(* Properties of RoutesDB.findDistance on the seeded catalog.              *)
(***************************************************************************)
IsFindDistance == call.op = "findDistance"

\* C1: for every route R of the seeded catalog, findDistance(R.origin,
\* R.destination) and findDistance(R.destination, R.origin) both return
\* R.distanceKm: no route declared earlier captures the lookup.
C1_RouteSymmetry ==
    IsFindDistance =>
        \A i \in 1..Len(SeedRoutes) :
            LET R == SeedRoutes[i]
            IN  \/ call.origin = R.origin /\ call.destination = R.destination
                \/ call.origin = R.destination /\ call.destination = R.origin
                => ret = Number(R.distanceKm)

\* C1 witness: the last route of the catalog looked up destination first.
C1_Witness ==
    /\ IsFindDistance
    /\ call.origin = PelotasRS
    /\ call.destination = PortoAlegreRS
    /\ ret = Number(280)

\* C5: for every route of the seeded catalog, findDistance with both labels
\* stripped of their region suffix, in either direction, returns the
\* route's distanceKm; findDistance("São Paulo", "Rio de Janeiro") is 430.
C5_BareCityLookup ==
    IsFindDistance =>
        /\ \A i \in 1..Len(SeedRoutes) :
              LET R == SeedRoutes[i]
                  o == BareCity(R.origin)
                  d == BareCity(R.destination)
              IN  \/ call.origin = o /\ call.destination = d
                  \/ call.origin = d /\ call.destination = o
                  => ret = Number(R.distanceKm)
        /\ ( /\ call.origin = <<"S", "ã", "o", " ", "P", "a", "u", "l", "o">>
             /\ call.destination = <<"R", "i", "o", " ", "d", "e", " ", "J", "a", "n", "e", "i", "r", "o">>
             => ret = Number(430) )

\* C5 witness: a route declared late, by bare city names, destination first.
C5_Witness ==
    /\ IsFindDistance
    /\ call.origin = <<"A", "n", "á", "p", "o", "l", "i", "s">>
    /\ call.destination = <<"G", "o", "i", "â", "n", "i", "a">>
    /\ ret = Number(54)

\* A string that differs from s only by the case of its letters and by
\* leading and trailing whitespace.
Disguise(s) == PadWith(SwapCase(s), "\t", MaxPad)

\* The string with leading and trailing whitespace removed and every
\* letter in lower case.
Canonical(s) == ToLowerCase(Trim(s))

\* C6: findDistance is invariant under letter case and leading/trailing
\* whitespace of its arguments: the value returned for (a, b) is the value
\* returned for any (a', b') that differ from a and b only in those.
C6_CaseAndWhitespaceInvariant ==
    IsFindDistance =>
        /\ ret = FindDistance(routes, Disguise(call.origin), Disguise(call.destination))
        /\ ret = FindDistance(routes, Canonical(call.origin), Canonical(call.destination))

\* C6 witness: an upper-case, padded label and a bare city find the route.
C6_Witness ==
    /\ IsFindDistance
    /\ call.origin = PadWith(ToUpperCase(SaoPauloSP), " ", MaxPad)
    /\ call.destination = BareCity(RioDeJaneiroRJ)
    /\ ret = Number(430)

\* Some route matches (a, b) on the full labels or on the bare cities, in
\* either direction, once case and surrounding whitespace are set aside.
SomeRouteMatches(rts, a, b) ==
    \E i \in 1..Len(rts) :
        LET o == ToLowerCase(rts[i].origin)
            d == ToLowerCase(rts[i].destination)
        IN  \/ {Canonical(a), Canonical(b)} = {o, d} /\ (o = d => Canonical(a) = Canonical(b))
            \/ /\ Trim(BareCity(Canonical(a))) \in {Trim(BareCity(o)), Trim(BareCity(d))}
               /\ Trim(BareCity(Canonical(b))) \in {Trim(BareCity(o)), Trim(BareCity(d))}
               /\ {Trim(BareCity(Canonical(a))), Trim(BareCity(Canonical(b)))}
                     = {Trim(BareCity(o)), Trim(BareCity(d))}

\* C7: findDistance always returns (a distance or null), returns null when
\* no route matches in either pass, and an origin or destination that is
\* empty after trimming is never matched; ("Nowhere", "Nowhere Else") is
\* not found.
C7_NotFound ==
    IsFindDistance =>
        /\ ret = Null \/ \E i \in 1..Len(routes) : ret = Number(routes[i].distanceKm)
        /\ ~SomeRouteMatches(routes, call.origin, call.destination) => ret = Null
        /\ Trim(call.origin) = <<>> \/ Trim(call.destination) = <<>> => ret = Null
        /\ call.origin = Nowhere /\ call.destination = NowhereElse => ret = Null

\* C7 witness: a blank origin with a real label as destination.
C7_Witness ==
    /\ IsFindDistance
    /\ call.origin = Blank(MaxPad)
    /\ call.destination = SaoPauloSP
    /\ ret = Null

(***************************************************************************)
(* Properties of RoutesDB.findDistance for any catalog contents.           *)
(***************************************************************************)
\* The earliest-declared of a non-empty set of route indices.
Earliest(S) == CHOOSE x \in S : \A y \in S : x <= y

\* The routes of rts whose full labels are (a, b) in either direction.
ExactMatches(rts, a, b) ==
    {i \in 1..Len(rts) :
        LET o == ToLowerCase(rts[i].origin)
            d == ToLowerCase(rts[i].destination)
        IN  \/ o = Canonical(a) /\ d = Canonical(b)
            \/ o = Canonical(b) /\ d = Canonical(a)}

\* The routes of rts whose bare cities are those of (a, b) in either direction.
CityMatches(rts, a, b) ==
    {i \in 1..Len(rts) :
        LET o == Trim(BareCity(ToLowerCase(rts[i].origin)))
            d == Trim(BareCity(ToLowerCase(rts[i].destination)))
            x == Trim(BareCity(Canonical(a)))
            y == Trim(BareCity(Canonical(b)))
        IN  \/ o = x /\ d = y
            \/ o = y /\ d = x}

\* C2: findDistance applies its two passes in precedence order for any
\* catalog: when some route matches the full labels exactly the result is
\* the distance of the earliest such route, and a bare-city match is used
\* only when no route of the whole catalog matches exactly.
C2_ExactPassFirst ==
    IsFindDistance =>
        LET exact == ExactMatches(routes, call.origin, call.destination)
            city  == CityMatches(routes, call.origin, call.destination)
        IN  IF exact # {} THEN ret = Number(routes[Earliest(exact)].distanceKm)
            ELSE IF city # {} THEN ret = Number(routes[Earliest(city)].distanceKm)
            ELSE ret = Null

(***************************************************************************)
(* Properties of Calculator.calculateEmission and calculateAllModes.       *)
(***************************************************************************)
IsCalculateEmission == call.op = "calculateEmission"

IsCalculateAllModes == call.op = "calculateAllModes"

\* The position of a mode in the declaration order of the factor table.
DeclarationIndex(fs, mode) == CHOOSE i \in 1..Len(fs) : fs[i].mode = mode

\* |x|
Abs(x) == IF x < 0 THEN -x ELSE x

\* C3: calculateEmission with a mode that is no key of the factor table
\* signals an explicit UnknownTransportMode error: what the caller receives
\* is not a number, and in particular not the number 0.
C3_UnknownModeIsAnError ==
    IsCalculateEmission /\ call.transportMode \notin ModesOf(factors) =>
        ret.type # "number"

\* C4: calculateEmission and calculateAllModes guard against a negative
\* distance, so neither ever returns a negative emission value.
C4_NoNegativeEmission ==
    /\ IsCalculateEmission /\ ret.type = "number" => ret.value >= 0
    /\ IsCalculateAllModes =>
          \A i \in 1..Len(ret.value) : ret.value[i].emission >= 0

\* C8: for every distance d >= 0 and every mode m of the factor table,
\* calculateEmission(d, m) is d * factor[m] rounded to 2 decimal places (a
\* nearest multiple of 0.01); calculateEmission(430, 'car') is 51.6 and
\* calculateEmission(d, 'bicycle') is 0 for every d.
C8_EmissionRounded ==
    IsCalculateEmission /\ call.distanceKm >= 0
                        /\ call.transportMode \in ModesOf(factors) =>
        LET product == call.distanceKm * FactorOf(factors, call.transportMode)
            unit    == (DistanceScale * FactorScale) \div 100
        IN  /\ ret.type = "number"
            /\ 2 * Abs(ret.value * unit - product) <= unit
            /\ ( call.distanceKm = 430 * DistanceScale /\ call.transportMode = "car"
                 => ret.value = 5160 )
            /\ call.transportMode = "bicycle" => ret.value = 0

\* C8 witness: calculateEmission(430, 'car') has returned 51.60.
C8_Witness ==
    /\ IsCalculateEmission
    /\ call.distanceKm = 430 * DistanceScale
    /\ call.transportMode = "car"
    /\ ret = Number(5160)

\* C9: for every distance d >= 0, calculateAllModes(d) returns one entry
\* per mode of the factor table (4 entries), ascending by emission, entries
\* of equal emission in the table's declaration order; for d = 0 the order
\* is the declaration order and for d = 430 bicycle is first with emission 0.
C9_AllModesSorted ==
    IsCalculateAllModes /\ call.distanceKm >= 0 =>
        LET r == ret.value
        IN  /\ ret.type = "array"
            /\ Len(r) = 4
            /\ Len(r) = Len(factors)
            /\ \A m \in ModesOf(factors) :
                  Cardinality({i \in 1..Len(r) : r[i].mode = m}) = 1
            /\ \A i, j \in 1..Len(r) :
                  i < j => \/ r[i].emission < r[j].emission
                           \/ /\ r[i].emission = r[j].emission
                              /\ DeclarationIndex(factors, r[i].mode)
                                   < DeclarationIndex(factors, r[j].mode)
            /\ ( call.distanceKm = 0 =>
                    [i \in 1..Len(r) |-> r[i].mode] = <<"bicycle", "car", "bus", "truck">> )
            /\ ( call.distanceKm = 430 * DistanceScale =>
                    r[1].mode = "bicycle" /\ r[1].emission = 0 )

\* C9 witness: a distance above 0 at which three modes tie at emission 0
\* and are returned in declaration order, before truck.
C9_Witness ==
    /\ IsCalculateAllModes
    /\ call.distanceKm > 0
    /\ [i \in 1..Len(ret.value) |-> ret.value[i].mode] = <<"bicycle", "car", "bus", "truck">>
    /\ ret.value[3].emission = 0
    /\ ret.value[4].emission > 0

\* The entry of mode m in the array returned by calculateAllModes.
EntryOf(r, m) == r[CHOOSE i \in 1..Len(r) : r[i].mode = m]

\* C10: in calculateAllModes(d), with carEmission = calculateEmission(d,
\* 'car'): when carEmission > 0 every entry has percentageVsCar =
\* (emission / carEmission) * 100 rounded to 2 decimal places and the car
\* entry is exactly 100; when carEmission = 0 percentageVsCar is 0 for every
\* mode, also for a mode whose own emission is above 0.
C10_PercentageVsCar ==
    IsCalculateAllModes /\ call.distanceKm >= 0 =>
        LET r == ret.value
            c == EntryOf(r, "car").emission
        IN  /\ c = CalculateEmission(factors, call.distanceKm, "car")
            /\ c > 0 =>
                  /\ EntryOf(r, "car").percentageVsCar = 10000
                  /\ \A i \in 1..Len(r) :
                        LET q    == r[i].emission \div c
                            rest == r[i].emission % c
                            p    == r[i].percentageVsCar - q * 10000
                        IN  2 * Abs(p * c - rest * 10000) <= c
            /\ c = 0 => \A i \in 1..Len(r) : r[i].percentageVsCar = 0

\* C10 witness: the car emission rounds to 0 while truck's does not, and
\* every percentage is 0.
C10_Witness ==
    /\ IsCalculateAllModes
    /\ call.distanceKm > 0
    /\ EntryOf(ret.value, "car").emission = 0
    /\ EntryOf(ret.value, "truck").emission > 0
    /\ \A i \in 1..Len(ret.value) : ret.value[i].percentageVsCar = 0

(***************************************************************************)
(* Properties of Calculator.calculateSavings.                              *)
(***************************************************************************)
IsCalculateSavings == call.op = "calculateSavings"

\* C11: for all emission and baseline values calculateSavings returns
\* savedKg = baseline - emission rounded to 2 decimal places (a nearest
\* multiple of 0.01, possibly negative), and percentage = (savedKg /
\* baseline) * 100 rounded to 2 decimal places, computed from the rounded
\* savedKg, when baseline > 0, and percentage = 0 when baseline <= 0.
C11_Savings ==
    IsCalculateSavings =>
        LET e == call.emission
            b == call.baselineEmission
            s == ret.value.savedKg
            p == ret.value.percentage
            unit == KgScale \div 100
        IN  /\ ret.type = "object"
            /\ 2 * Abs(s * unit - (b - e)) <= unit
            /\ b > 0 => 2 * Abs(p * b - s * unit * 10000) <= b
            /\ b <= 0 => p = 0

\* C11 witness: the mode emits 0.017 kg against a baseline of 0.001 kg; the
\* saving is negative and the percentage is that of the rounded saving
\* (-0.02 / 0.001), not of the exact difference (-0.016 / 0.001).
C11_Witness ==
    /\ IsCalculateSavings
    /\ call.emission = 17
    /\ call.baselineEmission = 1
    /\ ret.value = [savedKg |-> -2, percentage |-> -200000]

\* C12 as stated: calculateSavings(38.27, 51.6) returns savedKg = 13.33
\* and, to 2 decimal places, percentage = 25.84.
C12_Original ==
    IsCalculateSavings /\ call.emission = 38270 /\ call.baselineEmission = 51600 =>
        ret.value.savedKg = 1333 /\ ret.value.percentage = 2584

\* C12 amended: calculateSavings(38.27, 51.6) returns savedKg = 13.33 and
\* percentage = 25.83 (13.33 / 51.6 is 25.8333... percent).
C12_SavingsExample ==
    IsCalculateSavings /\ call.emission = 38270 /\ call.baselineEmission = 51600 =>
        ret.value.savedKg = 1333 /\ ret.value.percentage = 2583

\* C12 witness: calculateSavings(38.27, 51.6) has returned.
C12_Witness ==
    /\ IsCalculateSavings
    /\ call.emission = 38270
    /\ call.baselineEmission = 51600
    /\ ret = Object([savedKg |-> 1333, percentage |-> 2583])

\* r is num / den rounded to the nearest integer, an exact half towards
\* +infinity.
IsRoundedHalfUp(r, num, den) ==
    /\ 2 * num - den < 2 * r * den
    /\ 2 * r * den <= 2 * num + den

\* r is num / den rounded to the nearest integer, an exact half away from
\* zero.
IsRoundedHalfAway(r, num, den) ==
    IF num >= 0 THEN IsRoundedHalfUp(r, num, den)
    ELSE IsRoundedHalfUp(-r, -num, den)

IsCalculateCarbonCredits == call.op = "calculateCarbonCredits"

IsEstimateCreditPrice == call.op = "estimateCreditPrice"

\* The five rounding sites of the call that has just returned all round as
\* Rounded(r, num, den) says: emission, percentageVsCar, savings (savedKg
\* and percentage), credits and price (min, max and average).
FiveSitesRound(Rounded(_, _, _)) ==
    /\ IsCalculateEmission /\ call.transportMode \in ModesOf(factors) =>
          Rounded(ret.value,
                  call.distanceKm * FactorOf(factors, call.transportMode),
                  (DistanceScale * FactorScale) \div 100)
    /\ IsCalculateAllModes =>
          LET r == ret.value
              c == EntryOf(r, "car").emission
          IN  c > 0 =>
                \A i \in 1..Len(r) :
                    LET q == r[i].emission \div c
                    IN  Rounded(r[i].percentageVsCar - q * 10000,
                                (r[i].emission % c) * 10000, c)
    /\ IsCalculateSavings =>
          LET b == call.baselineEmission
              s == ret.value.savedKg
          IN  /\ Rounded(s, b - call.emission, KgScale \div 100)
              /\ b > 0 => Rounded(ret.value.percentage,
                                  s * (KgScale \div 100) * 10000, b)
    /\ IsCalculateCarbonCredits =>
          Rounded(ret.value, call.emissionKg,
                  (KgScale * credit.KG_PER_CREDIT) \div CreditScale)
    /\ IsEstimateCreditPrice =>
          LET e == ret.value
          IN  /\ Rounded(e.min, call.credits * credit.PRICE_MIN_BRL * 100,
                         CreditScale)
              /\ Rounded(e.max, call.credits * credit.PRICE_MAX_BRL * 100,
                         CreditScale)
              /\ Rounded(e.average, e.min + e.max, 2)

\* (b - e) * 100 is an exact half: b - e is an odd multiple of 0.005 kg.
IsExactHalf(e, b) == (b - e) % (KgScale \div 100) = (KgScale \div 100) \div 2

C14_CreditPrice ==
    IsEstimateCreditPrice /\ call.credits >= 0 =>
        LET e == ret.value
        IN  /\ ret.type = "object"
            /\ 2 * Abs(e.min * CreditScale
                       - call.credits * credit.PRICE_MIN_BRL * 100) <= CreditScale
            /\ 2 * Abs(e.max * CreditScale
                       - call.credits * credit.PRICE_MAX_BRL * 100) <= CreditScale
            /\ IsRoundedHalfUp(e.average, e.min + e.max, 2)
            /\ e.min <= e.average /\ e.average <= e.max
            /\ call.credits = CreditScale =>
                  e = [min |-> 5000, max |-> 15000, average |-> 10000]

\* C14 witness: 0.0001 credit costs 0.005 to 0.015, rounded to 0.01 and
\* 0.02; the average 0.02 is that of the rounded values, 0.015, while the
\* average of the unrounded products is 0.01.
C14_Witness ==
    /\ IsEstimateCreditPrice
    /\ call.credits = 1
    /\ ret.value = [min |-> 1, max |-> 2, average |-> 2]

\* C15: for every emissionKg >= 0, calculateCarbonCredits(emissionKg) is
\* emissionKg / kgPerCredit (1000) rounded to 4 decimal places; 1000 kg is
\* 1 credit, and every emission below 0.05 kg is 0 credits.
C15_CarbonCredits ==
    IsCalculateCarbonCredits /\ call.emissionKg >= 0 =>
        LET unit == (KgScale * credit.KG_PER_CREDIT) \div CreditScale
        IN  /\ ret.type = "number"
            /\ credit.KG_PER_CREDIT = 1000
            /\ 2 * Abs(ret.value * unit - call.emissionKg) <= unit
            /\ call.emissionKg = 1000 * KgScale => ret.value = CreditScale
            /\ 20 * call.emissionKg < KgScale => ret.value = 0

\* C15 witness: 0.049 kg, just below 0.05 kg, is 0 credits.
C15_Witness ==
    /\ IsCalculateCarbonCredits
    /\ call.emissionKg = 49
    /\ ret.value = 0

IsGetAllCities == call.op = "getAllCities"

\* The labels that occur as origin or destination of a catalog route.
LabelsOf(rts) ==
    {rts[i].origin : i \in 1..Len(rts)} \cup {rts[i].destination : i \in 1..Len(rts)}

\* C17: getAllCities returns a sequence that contains every label occurring
\* as origin or destination of a catalog route, each exactly once, and
\* nothing else, sorted ascending under the pt-BR collation: an accented
\* letter sorts with its base letter, so "Santos, SP" is directly followed
\* by "São Paulo, SP" and that by "Sobral, CE".
C17_AllCities ==
    IsGetAllCities =>
        LET r == ret.value
        IN  /\ ret.type = "array"
            /\ {r[i] : i \in 1..Len(r)} = LabelsOf(routes)
            /\ Len(r) = Cardinality(LabelsOf(routes))
            /\ \A i \in 1..Len(r) : \A j \in 1..Len(r) :
                   i < j => LocaleCompare(r[i], r[j]) < 0
            /\ SaoPauloSP \in LabelsOf(routes) /\ routes = SeedRoutes =>
                   \E i \in 2..Len(r) - 1 :
                       /\ r[i - 1] = SantosSP
                       /\ r[i] = SaoPauloSP
                       /\ r[i + 1] = SobralCE

\* C17 witness: getAllCities has returned the 39 labels of the seeded
\* catalog, "Anápolis, GO" first and "Vitória, ES" last, after "Vitória da
\* Conquista, BA".
C17_Witness ==
    /\ IsGetAllCities
    /\ Len(ret.value) = Len(routes)
    /\ ret.value[1] = AnapolisGO
    /\ ret.value[Len(ret.value) - 1] = VitoriaDaConquistaBA
    /\ ret.value[Len(ret.value)] = VitoriaES

\* What the call c returns when it is made on the catalog, the factor table
\* and the credit configuration as they were seeded.
SeededResult(c) ==
    CASE c.op = "findDistance" -> FindDistance(SeedRoutes, c.origin, c.destination)
      [] c.op = "getAllCities" -> Array(GetAllCities(SeedRoutes))
      [] c.op = "calculateEmission" ->
            Number(CalculateEmission(EmissionFactors, c.distanceKm, c.transportMode))
      [] c.op = "calculateAllModes" ->
            Array(CalculateAllModes(EmissionFactors, c.distanceKm))
      [] c.op = "calculateSavings" ->
            Object(CalculateSavings(c.emission, c.baselineEmission))
      [] c.op = "calculateCarbonCredits" ->
            Number(CalculateCarbonCredits(CarbonCredit, c.emissionKg))
      [] c.op = "estimateCreditPrice" ->
            Object(EstimateCreditPrice(CarbonCredit, c.credits))

\* C16: every Calculator operation, findDistance and getAllCities leave the
\* factor table, the credit configuration and the route catalog as they
\* were seeded, and after any sequence of calls a call returns what the
\* same call returns on the seeded configuration, hence what every other
\* call with identical inputs returns.
C16_Frame ==
    /\ routes = SeedRoutes
    /\ factors = EmissionFactors
    /\ credit = CarbonCredit
    /\ call # NoCall => ret = SeededResult(call)

\* C16 witness: calculateAllModes(430) has returned its entries sorted by
\* emission, bus before car, and the factor table still declares car
\* before bus.
C16_Witness ==
    /\ IsCalculateAllModes
    /\ call.distanceKm = 430 * DistanceScale
    /\ [i \in 1..Len(ret.value) |-> ret.value[i].mode]
           = <<"bicycle", "bus", "car", "truck">>
    /\ [i \in 1..Len(factors) |-> factors[i].mode]
           = <<"bicycle", "car", "bus", "truck">>

IsHandleFormSubmit == call.op = "handleFormSubmit"

IsTimeout == call.op = "timeout"

\* The submission c passes the validation of handleFormSubmit: origin and
\* destination are not blank and the distance is a number above 0.
Accepted(c) ==
    /\ Trim(c.origin) # <<>>
    /\ Trim(c.destination) # <<>>
    /\ ParseFloat(c.distance) # NaN
    /\ ParseFloat(c.distance).value > 0

\* C18: a step of handleFormSubmit that accepts the submission disables
\* the submit button, hides the results, comparison and carbon-credits
\* sections and leaves a timer pending; one that fails validation leaves
\* the button enabled and the sections as they were.  The step of the
\* timer always re-enables the button; it shows the three sections when
\* calculation and rendering complete, and when they throw, as they do for
\* a transport value with no TRANSPORT_MODES entry, it shows none of them.
C18_SubmitLifecycle ==
    [][ /\ IsHandleFormSubmit' /\ Accepted(call') =>
              /\ submitButton'.disabled
              /\ hidden' = Sections
              /\ timer' # Null
        /\ IsHandleFormSubmit' /\ ~Accepted(call') =>
              /\ ~submitButton'.disabled
              /\ submitButton' = submitButton
              /\ hidden' = hidden
              /\ timer' = timer
        /\ IsTimeout' =>
              /\ ~submitButton'.disabled
              /\ alerted' = <<>> => hidden' = {}
              /\ alerted' # <<>> => hidden' = hidden /\ hidden' = Sections
              /\ call'.selectedTransport \notin DOMAIN TransportModes =>
                    alerted' = <<AlertError>> ]_vars

\* C18 witness: the timer has fired for a submission with the transport
\* value "plane": rendering threw, the alert was raised, the three sections
\* stay hidden and the button is enabled again.
C18_Witness ==
    /\ IsTimeout
    /\ call.selectedTransport = UnknownMode
    /\ alerted = <<AlertError>>
    /\ hidden = Sections
    /\ ~submitButton.disabled
    /\ submitButton.content = "text"

\* C19: in every state of the autofill the distance field is read-only
\* only while it holds the distance that findDistance returns for the
\* current origin and destination, and it is editable whenever the helper
\* text reports that the route was not found.
C19_ReadOnlyOnlyWhileFound ==
    /\ distanceInput.readonly =>
          LET found == FindDistance(routes, originInput, destinationInput)
          IN  /\ found # Null
              /\ distanceInput.value = NumberToString(found.value * DistanceScale)
    /\ helperText.textContent = HelperNotFound => ~distanceInput.readonly

====
